---- MODULE Spec2Model ----
(***************************************************************************)
(* LabelField (flambe/field/label.py): a label vocabulary built by setup,  *)
(* read by process and by the label_count property.                        *)
(*                                                                         *)
(* A raw example is a string, modelled as a sequence of characters; a      *)
(* token is a string as well.  The vocabulary is an insertion-ordered      *)
(* mapping, modelled as the sequence of its entries in insertion order.    *)
(* One step of the model is one token of setup's inner loop, one advance   *)
(* of setup's generator, or one whole process call.                        *)
(***************************************************************************)
EXTENDS Integers, Sequences, FiniteSets

\* ---------------------------------------------------------------- bounds
\* most collections one setup call is given
MaxArgs == 2
\* most examples fed to setup over the whole life of the instance
MaxExamples == 2

\* ---------------------------------------------------------------- inputs
Sep == "|"
NoSep == "None"
Labels == {"a", "b"}

\* the raw examples the calls draw from: "b", "a|a", "a|b"
Examples == {<<"b">>} \cup {<<"a", Sep, y>> : y \in Labels}

\* a collection argument of setup: None, or an ordered collection of examples
AbsentCollection == [absent |-> TRUE, items |-> <<>>]
Collection(xs) == [absent |-> FALSE, items |-> xs]

RECURSIVE SeqsUpTo(_, _)
SeqsUpTo(S, n) ==
    IF n = 0 THEN {<<>>}
    ELSE LET shorter == SeqsUpTo(S, n - 1)
         IN  shorter \cup {Append(s, x) : s \in {q \in shorter : Len(q) = n - 1}, x \in S}

\* the argument tuples of one setup call holding at most budget examples
RECURSIVE DataUpTo(_, _)
DataUpTo(nargs, budget) ==
    IF nargs = 0 THEN {<<>>}
    ELSE {<<>>} \cup
         {<<c>> \o rest :
            c \in {AbsentCollection},
            rest \in DataUpTo(nargs - 1, budget)} \cup
         UNION {{<<Collection(xs)>> \o rest : rest \in DataUpTo(nargs - 1, budget - Len(xs))} :
                  xs \in SeqsUpTo(Examples, budget)}

RECURSIVE NumExamples(_)
NumExamples(data) ==
    IF data = <<>> THEN 0
    ELSE Len(Head(data).items) + NumExamples(Tail(data))

Threads == {"t1", "t2"}
MainThread == {"t1"}

VARIABLES one_hot, multilabel_sep, vocab, label_count_dict,
          calls, result, observed, fed

vars == <<one_hot, multilabel_sep, vocab, label_count_dict,
          calls, result, observed, fed>>

\* ------------------------------------------------------- the vocabulary
Keys(v) == {v[k].token : k \in 1..Len(v)}
Ids(v) == {v[k].id : k \in 1..Len(v)}
Lookup(v, token) == v[CHOOSE k \in 1..Len(v) : v[k].token = token].id
SetItem(c, key, val) == [x \in DOMAIN c \cup {key} |-> IF x = key THEN val ELSE c[x]]

\* ------------------------------------------------------- the tokenizer
RECURSIVE Split(_, _, _)
Split(s, sep, cur) ==
    IF s = <<>> THEN <<cur>>
    ELSE IF Head(s) = sep THEN <<cur>> \o Split(Tail(s), sep, <<>>)
    ELSE Split(Tail(s), sep, Append(cur, Head(s)))

Tokenize(sep, example) ==
    IF sep = NoSep THEN <<example>> ELSE Split(example, sep, <<>>)

\* ------------------------------------------------------------- setup
\* index = len(self.vocab) - 1
CurrentLastId_OffByOne(v) == Len(v)
CurrentLastId_Restart(v) == -1
CurrentLastId(v) == Len(v) - 1

\* next() of the generator
\*   (e for dataset in data for e in dataset if dataset is not None)
\* di is the collection being iterated, ei the items already taken from it.
\* The inner "for e in dataset" is entered before the filter is evaluated,
\* so a None collection raises TypeError when the generator reaches it.
RECURSIVE GenNext_Eager(_, _, _)
GenNext_Eager(data, di, ei) ==
    IF \E k \in 1..Len(data) : data[k].absent
    THEN [kind |-> "raise", example |-> <<>>, di |-> di, ei |-> ei]
    ELSE IF di > Len(data)
    THEN [kind |-> "stop", example |-> <<>>, di |-> di, ei |-> ei]
    ELSE IF ei < Len(data[di].items)
    THEN [kind |-> "yield", example |-> data[di].items[ei + 1], di |-> di, ei |-> ei + 1]
    ELSE GenNext_Eager(data, di + 1, 0)

RECURSIVE GenNext(_, _, _)
GenNext(data, di, ei) ==
    IF di > Len(data)
    THEN [kind |-> "stop", example |-> <<>>, di |-> di, ei |-> ei]
    ELSE IF data[di].absent
    THEN [kind |-> "raise", example |-> <<>>, di |-> di, ei |-> ei]
    ELSE IF ei < Len(data[di].items)
    THEN [kind |-> "yield", example |-> data[di].items[ei + 1], di |-> di, ei |-> ei + 1]
    ELSE GenNext(data, di + 1, 0)

\* the body of "for token in self.tokenizer(example)"
TokenStep_NoIncrement(v, c, index, token) ==
    IF token \notin Keys(v)
    THEN [vocab |-> Append(v, [token |-> token, id |-> index + 1]),
          count |-> SetItem(c, token, 1),
          index |-> index + 1]
    ELSE [vocab |-> v, count |-> c, index |-> index]

TokenStep_NoCountEntry(v, c, index, token) ==
    IF token \notin Keys(v)
    THEN [vocab |-> Append(v, [token |-> token, id |-> index + 1]),
          count |-> c,
          index |-> index + 1]
    ELSE [vocab |-> v,
          count |-> IF token \in DOMAIN c THEN [c EXCEPT ![token] = @ + 1]
                    ELSE SetItem(c, token, 1),
          index |-> index]

TokenStep_SizeAsId(v, c, index, token) ==
    IF token \notin Keys(v)
    THEN [vocab |-> Append(v, [token |-> token, id |-> Len(v)]),
          count |-> SetItem(c, token, 1),
          index |-> index + 1]
    ELSE [vocab |-> v, count |-> [c EXCEPT ![token] = @ + 1], index |-> index]

TokenStep(v, c, index, token) ==
    IF token \notin Keys(v)
    THEN [vocab |-> Append(v, [token |-> token, id |-> index + 1]),
          count |-> SetItem(c, token, 1),
          index |-> index + 1]
    ELSE [vocab |-> v, count |-> [c EXCEPT ![token] = @ + 1], index |-> index]

RECURSIVE FoldTokens(_, _, _, _)
FoldTokens(v, c, index, toks) ==
    IF toks = <<>> THEN [vocab |-> v, count |-> c, index |-> index]
    ELSE LET r == TokenStep(v, c, index, Head(toks))
         IN  FoldTokens(r.vocab, r.count, r.index, Tail(toks))

RECURSIVE SetupLoop(_, _, _, _, _, _, _)
SetupLoop(v, c, index, sep, data, di, ei) ==
    LET g == GenNext(data, di, ei)
    IN  IF g.kind = "stop" THEN [vocab |-> v, count |-> c, outcome |-> "returned"]
        ELSE IF g.kind = "raise" THEN [vocab |-> v, count |-> c, outcome |-> "TypeError"]
        ELSE LET r == FoldTokens(v, c, index, Tokenize(sep, g.example))
             IN  SetupLoop(r.vocab, r.count, r.index, sep, data, g.di, g.ei)

\* one whole setup(*data) call run from the state (v, c)
RunSetup(v, c, sep, data) == SetupLoop(v, c, CurrentLastId(v), sep, data, 1, 0)

\* ------------------------------------------------------------ process
NoResult == [kind |-> "none", example |-> <<>>, val |-> <<>>]

\* the inherited TextField.process with unk_token=None: token -> id, or failure
BaseProcess(v, toks) ==
    IF \E k \in 1..Len(toks) : toks[k] \notin Keys(v)
    THEN [ok |-> FALSE, val |-> <<>>]
    ELSE [ok |-> TRUE, val |-> [k \in 1..Len(toks) |-> Lookup(v, toks[k])]]

\* [int(i in n) for i in range(len(self.vocab))]
OneHot_Counting(v, n) ==
    [p \in 1..Len(v) |-> Cardinality({k \in 1..Len(n) : n[k] = p - 1})]
OneHot(v, n) ==
    [p \in 1..Len(v) |-> IF \E k \in 1..Len(n) : n[k] = p - 1 THEN 1 ELSE 0]

ProcessOf_KnownOnly(oh, v, sep, example) ==
    LET toks == Tokenize(sep, example)
        n == BaseProcess(v, toks)
    IN  IF oh
        THEN [kind |-> "one_hot", example |-> example,
              val |-> [p \in 1..Len(v) |->
                         IF \E k \in 1..Len(toks) : toks[k] = v[p].token THEN 1 ELSE 0]]
        ELSE IF ~n.ok THEN [kind |-> "ValueError", example |-> example, val |-> <<>>]
        ELSE [kind |-> "ids", example |-> example, val |-> n.val]

ProcessOf(oh, v, sep, example) ==
    LET n == BaseProcess(v, Tokenize(sep, example))
    IN  IF ~n.ok THEN [kind |-> "ValueError", example |-> example, val |-> <<>>]
        ELSE IF oh THEN [kind |-> "one_hot", example |-> example, val |-> OneHot(v, n.val)]
        ELSE [kind |-> "ids", example |-> example, val |-> n.val]

\* the label_count property: counts in the vocabulary's iteration order
LabelCount(v, c) == [k \in 1..Len(v) |-> c[v[k].token]]

\* ---------------------------------------------------------- the state
IdleCall == [pc |-> "idle", data |-> <<>>, di |-> 1, ei |-> 0, toks |-> <<>>,
             index |-> -1, v0 |-> <<>>, c0 |-> <<>>]

Init ==
    /\ one_hot \in BOOLEAN
    /\ multilabel_sep \in {NoSep, Sep}
    /\ vocab = <<>>
    /\ label_count_dict = <<>>
    /\ calls = [t \in Threads |-> IdleCall]
    /\ result = NoResult
    /\ observed = <<>>
    /\ fed = 0

NoCallRunning == \A t \in Threads : calls[t].pc # "iter"

SetupBegin(t, data) ==
    /\ calls[t].pc # "iter"
    /\ fed + NumExamples(data) <= MaxExamples
    /\ calls' = [calls EXCEPT ![t] =
                   [pc |-> "iter", data |-> data, di |-> 1, ei |-> 0, toks |-> <<>>,
                    index |-> CurrentLastId(vocab), v0 |-> vocab, c0 |-> label_count_dict]]
    /\ fed' = fed + NumExamples(data)
    /\ result' = NoResult
    /\ UNCHANGED <<one_hot, multilabel_sep, vocab, label_count_dict, observed>>

SetupNextExample(t) ==
    /\ calls[t].pc = "iter"
    /\ calls[t].toks = <<>>
    /\ LET g == GenNext(calls[t].data, calls[t].di, calls[t].ei)
       IN  /\ g.kind = "yield"
           /\ calls' = [calls EXCEPT ![t].di = g.di, ![t].ei = g.ei,
                                     ![t].toks = Tokenize(multilabel_sep, g.example)]
    /\ UNCHANGED <<one_hot, multilabel_sep, vocab, label_count_dict, result,
                   observed, fed>>

SetupToken(t) ==
    /\ calls[t].pc = "iter"
    /\ calls[t].toks # <<>>
    /\ LET token == Head(calls[t].toks)
           r == TokenStep(vocab, label_count_dict, calls[t].index, token)
       IN  /\ vocab' = r.vocab
           /\ label_count_dict' = r.count
           /\ calls' = [calls EXCEPT ![t].index = r.index, ![t].toks = Tail(calls[t].toks)]
           /\ observed' = Append(observed, token)
    /\ UNCHANGED <<one_hot, multilabel_sep, result, fed>>

SetupReturn(t) ==
    /\ calls[t].pc = "iter"
    /\ calls[t].toks = <<>>
    /\ GenNext(calls[t].data, calls[t].di, calls[t].ei).kind = "stop"
    /\ calls' = [calls EXCEPT ![t].pc = "done"]
    /\ UNCHANGED <<one_hot, multilabel_sep, vocab, label_count_dict, result,
                   observed, fed>>

SetupRaise(t) ==
    /\ calls[t].pc = "iter"
    /\ calls[t].toks = <<>>
    /\ GenNext(calls[t].data, calls[t].di, calls[t].ei).kind = "raise"
    /\ calls' = [calls EXCEPT ![t].pc = "raised"]
    /\ UNCHANGED <<one_hot, multilabel_sep, vocab, label_count_dict, result,
                   observed, fed>>

Process(example) ==
    /\ result' = ProcessOf(one_hot, vocab, multilabel_sep, example)
    /\ UNCHANGED <<one_hot, multilabel_sep, vocab, label_count_dict, calls,
                   observed, fed>>

\* one caller: every operation runs to its end before the next starts
Next ==
    \/ \E t \in MainThread, data \in DataUpTo(MaxArgs, MaxExamples - fed) :
         SetupBegin(t, data)
    \/ \E t \in MainThread : SetupNextExample(t)
    \/ \E t \in MainThread : SetupToken(t)
    \/ \E t \in MainThread : SetupReturn(t)
    \/ \E t \in MainThread : SetupRaise(t)
    \/ \E example \in Examples : NoCallRunning /\ Process(example)

Spec == Init /\ [][Next]_vars

\* two callers on one instance with no synchronization, each making one
\* setup call with one argument, and process calls at any moment
ConcNext ==
    \/ \E t \in Threads, data \in DataUpTo(1, MaxExamples - fed) :
         calls[t].pc = "idle" /\ SetupBegin(t, data)
    \/ \E t \in Threads : SetupNextExample(t)
    \/ \E t \in Threads : SetupToken(t)
    \/ \E t \in Threads : SetupReturn(t)
    \/ \E t \in Threads : SetupRaise(t)
    \/ \E example \in Examples : Process(example)

ConcSpec == Init /\ [][ConcNext]_vars

TypeOK ==
    /\ one_hot \in BOOLEAN
    /\ multilabel_sep \in {NoSep, Sep}
    /\ fed \in 0..MaxExamples
    /\ \A t \in Threads : calls[t].pc \in {"idle", "iter", "done", "raised"}
    /\ result.kind \in {"none", "ValueError", "ids", "one_hot"}

\* ------------------------------------------------------- the properties
Range(s) == {s[k] : k \in 1..Len(s)}
FirstPos(s, x) == CHOOSE k \in 1..Len(s) : s[k] = x /\ \A j \in 1..(k - 1) : s[j] # x
Occurrences(s, x) == Cardinality({k \in 1..Len(s) : s[k] = x})
RECURSIVE Sum(_)
Sum(s) == IF s = <<>> THEN 0 ELSE Head(s) + Sum(Tail(s))
RECURSIVE Flatten(_)
Flatten(data) == IF data = <<>> THEN <<>> ELSE Head(data).items \o Flatten(Tail(data))
NotAbsent(c) == ~c.absent
HasAbsent(data) == \E k \in 1..Len(data) : data[k].absent
FirstAbsent(data) == CHOOSE k \in 1..Len(data) : data[k].absent /\ \A j \in 1..(k - 1) : ~data[j].absent
DenseIds(v) == /\ Ids(v) = 0..(Len(v) - 1)
               /\ \A j, k \in 1..Len(v) : v[j].id = v[k].id => j = k
SameKeys(v, c) == DOMAIN c = Keys(v) /\ Cardinality(Keys(v)) = Len(v)
AllKnown(example) == \A tok \in Range(Tokenize(multilabel_sep, example)) : tok \in Keys(vocab)

\* C1: whenever no setup call is in progress, the vocabulary's tokens are
\* exactly the distinct tokens the tokenizer produced over all setup calls,
\* each once, the ids are exactly 0..n-1, and a token's id is the number of
\* distinct tokens first seen before it.
C1_DenseFirstSeen ==
    NoCallRunning =>
      /\ Keys(vocab) = Range(observed)
      /\ Len(vocab) = Cardinality(Range(observed))
      /\ DenseIds(vocab)
      /\ \A k \in 1..Len(vocab) :
           vocab[k].id =
             Cardinality({observed[j] : j \in 1..(FirstPos(observed, vocab[k].token) - 1)})

C1_Witness ==
    /\ calls["t1"].pc = "done"
    /\ calls["t1"].v0 # <<>>
    /\ Len(vocab) > Len(calls["t1"].v0)

\* C2 (as the specification states it): a setup call given an absent (None)
\* collection ends without an error, having processed exactly the examples of
\* its non-absent collections in order.
C2_AbsentSkipped ==
    \A t \in MainThread :
      (calls[t].pc \in {"done", "raised"} /\ HasAbsent(calls[t].data)) =>
        LET r == RunSetup(calls[t].v0, calls[t].c0, multilabel_sep,
                          SelectSeq(calls[t].data, NotAbsent))
        IN  /\ calls[t].pc = "done"
            /\ vocab = r.vocab
            /\ label_count_dict = r.count

\* C3: a process call on an example with at least one token outside the
\* vocabulary ends in the lookup failure, never in an id sequence or a vector.
C3_UnknownFails ==
    (result.kind # "none" /\ ~AllKnown(result.example)) => result.kind = "ValueError"

C3_Witness ==
    /\ one_hot
    /\ result.kind = "ValueError"
    /\ \E tok \in Range(Tokenize(multilabel_sep, result.example)) : tok \in Keys(vocab)
    /\ \E tok \in Range(Tokenize(multilabel_sep, result.example)) : tok \notin Keys(vocab)

\* C4: with one_hot set, process on an example whose tokens are all known
\* returns a vector as long as the vocabulary with 1 exactly at the ids that
\* process returns for the same example without one_hot, and 0 elsewhere.
C4_OneHotMarksIds ==
    (one_hot /\ result.kind # "none" /\ AllKnown(result.example)) =>
      LET ids == ProcessOf(FALSE, vocab, multilabel_sep, result.example)
      IN  /\ ids.kind = "ids"
          /\ result.kind = "one_hot"
          /\ Len(result.val) = Len(vocab)
          /\ \A i \in 0..(Len(vocab) - 1) :
               result.val[i + 1] = IF i \in Range(ids.val) THEN 1 ELSE 0

C4_Witness ==
    /\ one_hot
    /\ result.kind = "one_hot"
    /\ Len(vocab) >= 2
    /\ LET ids == ProcessOf(FALSE, vocab, multilabel_sep, result.example).val
       IN  Len(ids) = 2 /\ ids[1] = ids[2]

\* C5: after every token step, label_count at id i is the number of times the
\* token with id i has been produced by the tokenizer over all setup calls,
\* and the counts sum to the number of tokens observed.
C5_CountsOccurrences ==
    LET lc == LabelCount(vocab, label_count_dict)
    IN  /\ \A k \in 1..Len(vocab) :
             lc[vocab[k].id + 1] = Occurrences(observed, vocab[k].token)
        /\ Sum(lc) = Len(observed)

C5_Witness ==
    /\ Len(vocab) >= 2
    /\ \E k \in 1..Len(vocab) : LabelCount(vocab, label_count_dict)[k] >= 2

\* C6: in every state, the count table and the vocabulary have the same keys,
\* each vocabulary token once.
C6_SameKeySet == SameKeys(vocab, label_count_dict)

C6_Witness ==
    /\ calls["t1"].pc = "iter"
    /\ calls["t1"].toks # <<>>
    /\ Len(vocab) > Len(calls["t1"].v0)

\* C7: every step keeps every vocabulary entry (token, id and position), and
\* an entry it adds has the current vocabulary size as id, greater than every
\* id assigned before.
C7_GrowsOnly ==
    [][/\ Len(vocab') >= Len(vocab)
       /\ SubSeq(vocab', 1, Len(vocab)) = vocab
       /\ \A k \in (Len(vocab) + 1)..Len(vocab') :
            /\ vocab'[k].id = Len(vocab)
            /\ \A j \in 1..Len(vocab) : vocab'[k].id > vocab[j].id]_vars

C7_Witness ==
    /\ calls["t1"].pc = "iter"
    /\ calls["t1"].v0 # <<>>
    /\ Len(vocab) > Len(calls["t1"].v0)

\* C8: a setup call that has raised on an absent collection leaves the
\* vocabulary and the counts exactly as the collections before it built them;
\* that state has dense ids and equal key sets, and so has the state after any
\* further setup call made from it.
C8_AbortKeepsCommitted ==
    \A t \in MainThread :
      calls[t].pc = "raised" =>
        LET before == SubSeq(calls[t].data, 1, FirstAbsent(calls[t].data) - 1)
            r == RunSetup(calls[t].v0, calls[t].c0, multilabel_sep, before)
        IN  /\ vocab = r.vocab
            /\ label_count_dict = r.count
            /\ DenseIds(vocab)
            /\ SameKeys(vocab, label_count_dict)
            /\ \A e \in Examples :
                 LET later == RunSetup(vocab, label_count_dict, multilabel_sep,
                                       <<Collection(<<e>>)>>)
                 IN  DenseIds(later.vocab) /\ SameKeys(later.vocab, later.count)

C8_Witness ==
    /\ calls["t1"].pc = "raised"
    /\ Len(vocab) > Len(calls["t1"].v0)

\* C9: two setup calls that read the same vocabulary size at their start and
\* each added a token gave the same id to two different tokens, so the ids are
\* not the dense range.
C9_RaceSharesIds ==
    \A p, q \in Threads :
      ( /\ p # q
        /\ calls[p].pc # "idle" /\ calls[q].pc # "idle"
        /\ Len(calls[p].v0) = Len(calls[q].v0)
        /\ calls[p].index >= Len(calls[p].v0)
        /\ calls[q].index >= Len(calls[q].v0) ) =>
      /\ \E j, k \in 1..Len(vocab) :
           /\ vocab[j].token # vocab[k].token
           /\ vocab[j].id = vocab[k].id
           /\ vocab[j].id = Len(calls[p].v0)
      /\ ~DenseIds(vocab)

\* two tokens share an id, and a process call made while setup was running
\* failed on an example whose tokens setup has added since
C9_Witness ==
    /\ \E j, k \in 1..Len(vocab) : j # k /\ vocab[j].id = vocab[k].id
    /\ result.kind = "ValueError"
    /\ AllKnown(result.example)

\* setup(d1) then setup(d2), setup(d1, d2) and setup(d1 + d2) run from (v, c)
SplitThreeWays(v, c, d1, d2) ==
    LET first == RunSetup(v, c, multilabel_sep, <<Collection(d1)>>)
        two == RunSetup(first.vocab, first.count, multilabel_sep, <<Collection(d2)>>)
        one == RunSetup(v, c, multilabel_sep, <<Collection(d1), Collection(d2)>>)
        cat == RunSetup(v, c, multilabel_sep, <<Collection(d1 \o d2)>>)
    IN  /\ two.vocab = one.vocab /\ two.count = one.count
        /\ cat.vocab = one.vocab /\ cat.count = one.count

\* C10: a returned setup call over collections none of which is absent leaves
\* the state that two successive calls over any split of its collections
\* leave, and the state that one call over their concatenation leaves; and
\* from every state between calls, setup(d1) then setup(d2), setup(d1, d2) and
\* setup(d1 + d2) leave the same vocabulary and counts.
C10_SplitAgrees ==
    /\ NoCallRunning =>
         \A d1, d2 \in SeqsUpTo(Examples, 1) :
           SplitThreeWays(vocab, label_count_dict, d1, d2)
    /\ \A t \in MainThread :
      (calls[t].pc = "done" /\ ~HasAbsent(calls[t].data)) =>
        LET c == calls[t]
            joined == RunSetup(c.v0, c.c0, multilabel_sep, <<Collection(Flatten(c.data))>>)
        IN  /\ joined.vocab = vocab
            /\ joined.count = label_count_dict
            /\ \A k \in 0..Len(c.data) :
                 LET d1 == RunSetup(c.v0, c.c0, multilabel_sep, SubSeq(c.data, 1, k))
                     d2 == RunSetup(d1.vocab, d1.count, multilabel_sep,
                                    SubSeq(c.data, k + 1, Len(c.data)))
                 IN  /\ d1.outcome = "returned" /\ d2.outcome = "returned"
                     /\ d2.vocab = vocab
                     /\ d2.count = label_count_dict

C10_Witness ==
    /\ calls["t1"].pc = "done"
    /\ Len(calls["t1"].data) = 2
    /\ \A k \in 1..2 : ~calls["t1"].data[k].absent /\ calls["t1"].data[k].items # <<>>
    /\ Len(vocab) >= 2
====
